---- MODULE Spec2Model ----
(***************************************************************************)
(* eclint: the check / fix / infer engine of lib/eclint.ts and the rules   *)
(* lib/rules/{charset,insert_final_newline,max_line_length}.ts.            *)
(*                                                                         *)
(* A file's contents are a sequence of bytes (integers).  A JavaScript     *)
(* value (a setting's value, doc.charset, a rule's inferred value) is a    *)
(* record [t, b, n, s]: its type tag and its boolean, number and string    *)
(* payload, so that values of different types can be compared.             *)
(*                                                                         *)
(* lib/doc.ts (doc.create, Document.toBuffer) and lib/rules/end_of_line.ts *)
(* are not among the sources; they are modelled from the specification     *)
(* (sections 3, 4.1, 4.2, 4.6).  The rules indent_style, indent_size and   *)
(* trim_trailing_whitespace are not among the sources either and no        *)
(* settings map of the model names them.                                   *)
(***************************************************************************)
EXTENDS Integers, Sequences, FiniteSets, TLC

(***************************************************************************)
(* Bounds of the model.                                                    *)
(***************************************************************************)
\* longest file body (the bytes after the byte-order mark)
MaxLen == 3
\* most keys of the .editorconfig settings of a file
MaxKeys == 2
\* most files one infer invocation is fed
MaxFiles == 2
\* longest body of a file fed to infer
MaxInferLen == 2
\* longest body of a file the charset rule's check is given
MaxCharsetLen == 3

(***************************************************************************)
(* JavaScript values.                                                      *)
(***************************************************************************)
Undef == [t |-> "undefined", b |-> FALSE, n |-> 0, s |-> ""]
Bool(x) == [t |-> "boolean", b |-> x, n |-> 0, s |-> ""]
Num(x) == [t |-> "number", b |-> FALSE, n |-> x, s |-> ""]
Str(x) == [t |-> "string", b |-> FALSE, n |-> 0, s |-> x]

\* ToBoolean: undefined, false, 0 and '' are falsy
Truthy(v) ==
  CASE v.t = "boolean" -> v.b
    [] v.t = "number" -> v.n # 0
    [] v.t = "string" -> v.s # ""
    [] OTHER -> FALSE

\* ToString of a value used as a property key (setting[value])
ToKey(v) ==
  CASE v.t = "boolean" -> (IF v.b THEN "true" ELSE "false")
    [] v.t = "string" -> v.s
    [] v.t = "undefined" -> "undefined"

Last(s) == s[Len(s)]
Front(s) == SubSeq(s, 1, Len(s) - 1)

(***************************************************************************)
(* Bytes.                                                                  *)
(***************************************************************************)
LF == 10
CR == 13
LetterF == 102

\* newlines of lib/rules/insert_final_newline.ts
newlines(name) ==
  CASE name = "lf" -> <<LF>>
    [] name = "crlf" -> <<CR, LF>>
    [] name = "cr" -> <<CR>>

\* eclint.charsets, in the order of the object literal
charsets ==
  << [bom |-> <<239, 187, 191>>, charset |-> "utf_8_bom"],
     [bom |-> <<254, 255>>, charset |-> "utf_16be"],
     [bom |-> <<255, 254, 0, 0>>, charset |-> "utf_32le"],
     [bom |-> <<255, 254>>, charset |-> "utf_16le"],
     [bom |-> <<0, 0, 254, 255>>, charset |-> "utf_32be"] >>

IsPrefix(p, s) == Len(p) <= Len(s) /\ SubSeq(s, 1, Len(p)) = p

(***************************************************************************)
(* Document builder and serialisation (lib/doc.ts, from the specification) *)
(***************************************************************************)
\* the sniffing, had it kept the last table entry whose BOM starts the bytes
SniffBomOfLastEntry(bytes, i) ==
  LET hits == {j \in i..Len(charsets) : IsPrefix(charsets[j].bom, bytes)}
  IN  IF hits = {} THEN 0 ELSE CHOOSE j \in hits : \A k \in hits : k <= j

\* index of the first table entry whose BOM starts the bytes, 0 if none
RECURSIVE SniffBom(_, _)
SniffBom(bytes, i) ==
  IF i > Len(charsets) THEN 0
  ELSE IF IsPrefix(charsets[i].bom, bytes) THEN i
  ELSE SniffBom(bytes, i + 1)

\* Newline detect(buffer, offset): scans up to 2 bytes
DetectNewline(bytes, offset) ==
  IF offset > Len(bytes) THEN <<>>
  ELSE IF bytes[offset] = CR
    THEN (IF offset < Len(bytes) /\ bytes[offset + 1] = LF THEN <<CR, LF>> ELSE <<CR>>)
  ELSE IF bytes[offset] = LF THEN <<LF>>
  ELSE <<>>

\* number of leading bytes that are no terminator
RECURSIVE TextLength(_)
TextLength(bytes) ==
  IF bytes = <<>> \/ bytes[1] = CR \/ bytes[1] = LF THEN 0
  ELSE 1 + TextLength(Tail(bytes))

\* a Line: hasText is FALSE where the text is undefined
Line(number, text, hasText, ending) ==
  [number |-> number, text |-> text, hasText |-> hasText, ending |-> ending]

RECURSIVE ParseLines(_, _)
ParseLines(bytes, number) ==
  IF bytes = <<>> THEN <<>>
  ELSE LET len == TextLength(bytes)
           ending == DetectNewline(bytes, len + 1)
           rest == SubSeq(bytes, len + Len(ending) + 1, Len(bytes))
       IN  <<Line(number, SubSeq(bytes, 1, len), len > 0, ending)>>
             \o ParseLines(rest, number + 1)

\* doc.create(contents)
create(contents) ==
  LET i == SniffBom(contents, 1)
      bom == IF i = 0 THEN <<>> ELSE charsets[i].bom
      body == SubSeq(contents, Len(bom) + 1, Len(contents))
  IN  [charset |-> IF i = 0 THEN Undef ELSE Str(charsets[i].charset),
       lines |-> IF body = <<>> THEN <<Line(1, <<>>, FALSE, <<>>)>>
                 ELSE ParseLines(body, 1)]

\* the BOM literal of a charset, empty for a charset without one
BomOf(charset) ==
  LET hits == {i \in 1..Len(charsets) : charset.t = "string" /\ charsets[i].charset = charset.s}
  IN  IF hits = {} THEN <<>> ELSE charsets[CHOOSE i \in hits : TRUE].bom

RECURSIVE ConcatLines(_)
ConcatLines(lines) ==
  IF lines = <<>> THEN <<>>
  ELSE lines[1].text \o lines[1].ending \o ConcatLines(Tail(lines))

\* document.toBuffer()
toBuffer(doc) == BomOf(doc.charset) \o ConcatLines(doc.lines)

(***************************************************************************)
(* Settings: an object is the sequence of its [key, value] properties in   *)
(* insertion order, the order Object.keys enumerates.                      *)
(***************************************************************************)
Pair(k, v) == [key |-> k, value |-> v]

Keys(obj) == [i \in 1..Len(obj) |-> obj[i].key]

HasKey(obj, k) == \E i \in 1..Len(obj) : obj[i].key = k

\* obj[k], undefined for a missing property
Get(obj, k) ==
  IF HasKey(obj, k) THEN obj[CHOOSE i \in 1..Len(obj) : obj[i].key = k].value
  ELSE Undef

\* obj[k] = v: an existing property keeps its place
Put(obj, k, v) ==
  IF HasKey(obj, k)
  THEN [i \in 1..Len(obj) |-> IF obj[i].key = k THEN Pair(k, v) ELSE obj[i]]
  ELSE Append(obj, Pair(k, v))

\* _.assign(object, source)
RECURSIVE assign(_, _)
assign(object, source) ==
  IF source = <<>> THEN object
  ELSE assign(Put(object, source[1].key, source[1].value), Tail(source))

\* _.omit(object, [k])
RECURSIVE omit(_, _)
omit(object, k) ==
  IF object = <<>> THEN <<>>
  ELSE IF object[1].key = k THEN omit(Tail(object), k)
  ELSE <<object[1]>> \o omit(Tail(object), k)

ruleNames ==
  << "charset", "indent_style", "indent_size", "tab_width",
     "trim_trailing_whitespace", "end_of_line", "insert_final_newline",
     "max_line_length", "block_comment", "block_comment_start",
     "block_comment_end" >>

IsRuleless(name) ==
  name \in {"tab_width", "block_comment", "block_comment_start", "block_comment_end"}

\* the keys of the rules table, in insertion order
rules == SelectSeq(ruleNames, LAMBDA name : ~IsRuleless(name))

\* _.isUndefined(rules[setting])
RuleIsUndefined(setting) == \A i \in 1..Len(rules) : rules[i] # setting

\* rule.type
RuleType(name) ==
  IF name \in {"charset", "insert_final_newline"} THEN "DocumentRule" ELSE "LineRule"

\* getSettings, had it assigned the file's settings to the command's
getSettingsOntoCommand(fileSettings, commandSettings) ==
  omit(assign(commandSettings, fileSettings), "tab_width")

getSettings(fileSettings, commandSettings) ==
  omit(assign(fileSettings, commandSettings), "tab_width")

(***************************************************************************)
(* A rule's check returns Outcome: threw (an exception left it), defined   *)
(* (it returned something other than undefined), errors (what it returned: *)
(* the array of a document rule, the one error of a line rule), reports    *)
(* (the messages handed to context.report).                                *)
(***************************************************************************)
Outcome(threw, defined, errors, reports) ==
  [threw |-> threw, defined |-> defined, errors |-> errors, reports |-> reports]

Threw == Outcome(TRUE, FALSE, <<>>, <<>>)

\* the argument of a parameter the caller passed nothing for
NoArgument == [number |-> 0, text |-> <<>>, hasText |-> FALSE, ending |-> <<>>,
               charset |-> Undef, lines |-> <<>>, missing |-> TRUE]

\* what a rule receives as context: report tells whether context.report is a
\* function.  A settings object has no report method.
Context(report) == [report |-> report]

AsContext(settings) == Context(FALSE)

\* a message handed to context.report, with the line and column it names
Report(message, lineNumber, columnNumber) ==
  [message |-> message, lineNumber |-> lineNumber, columnNumber |-> columnNumber]

EditorConfigError(rule, message, lineNumber, columnNumber) ==
  [rule |-> rule, message |-> message, lineNumber |-> lineNumber,
   columnNumber |-> columnNumber]

(***************************************************************************)
(* lib/rules/insert_final_newline.ts                                       *)
(***************************************************************************)
InsertFinalNewlineRule_resolve(settings) ==
  IF Get(settings, "insert_final_newline").t = "boolean"
  THEN Get(settings, "insert_final_newline")
  ELSE Undef

InsertFinalNewlineRule_infer(doc) ==
  Len(doc.lines) > 0 /\ Last(doc.lines).ending # <<>>

\* check(context, settings, doc)
InsertFinalNewlineRule_check(context, settings, doc) ==
  IF doc = NoArgument THEN Threw   \* infer(doc) reads doc.lines of undefined
  ELSE
    LET configSetting == InsertFinalNewlineRule_resolve(settings)
        inferredSetting == InsertFinalNewlineRule_infer(doc)
        message == IF Truthy(configSetting) THEN "expected final newline"
                   ELSE "unexpected final newline"
    IN  IF configSetting.t = "undefined" \/ Bool(inferredSetting) = configSetting
        THEN Outcome(FALSE, FALSE, <<>>, <<>>)
        ELSE IF ~context.report THEN Threw   \* context.report is not a function
        ELSE IF doc.lines = <<>> THEN Threw   \* lastLine.text of undefined
        ELSE IF ~Last(doc.lines).hasText THEN Threw   \* lastLine.text.length
        ELSE Outcome(FALSE, TRUE,
                     <<EditorConfigError("end_of_line", message, Len(doc.lines),
                                         Len(Last(doc.lines).text))>>,
                     <<Report(message, 0, 0)>>)

\* the loop, had it cleared the ending of the last line whatever its text
StripFinalNewlineOfAnyLine(doc) ==
  IF ~InsertFinalNewlineRule_infer(doc) THEN doc
  ELSE [doc EXCEPT !.lines[Len(doc.lines)].ending = <<>>]

\* the loop of fix that strips the final newline
RECURSIVE StripFinalNewline(_)
StripFinalNewline(doc) ==
  IF ~InsertFinalNewlineRule_infer(doc) THEN doc
  ELSE LET lastLine == Last(doc.lines)
       IN  IF lastLine.hasText /\ lastLine.text # <<>>
           THEN [doc EXCEPT !.lines[Len(doc.lines)].ending = <<>>]
           ELSE StripFinalNewline([doc EXCEPT !.lines = Front(doc.lines)])

\* fix, had it not asked infer(doc) before it sets the ending
InsertFinalNewlineRule_fixUnasked(settings, doc) ==
  LET configSetting == InsertFinalNewlineRule_resolve(settings)
      endOfLineSetting == IF Truthy(Get(settings, "end_of_line"))
                          THEN Get(settings, "end_of_line").s ELSE "lf"
  IN  IF Truthy(configSetting)
      THEN IF doc.lines # <<>>
           THEN [doc EXCEPT !.lines[Len(doc.lines)].ending = newlines(endOfLineSetting)]
           ELSE [doc EXCEPT !.lines =
                   Append(doc.lines, Line(1, <<>>, TRUE, newlines(endOfLineSetting)))]
      ELSE StripFinalNewline(doc)

\* fix, had it not read settings.end_of_line
InsertFinalNewlineRule_fixLf(settings, doc) ==
  LET configSetting == InsertFinalNewlineRule_resolve(settings)
  IN  IF Truthy(configSetting) /\ ~InsertFinalNewlineRule_infer(doc)
      THEN IF doc.lines # <<>>
           THEN [doc EXCEPT !.lines[Len(doc.lines)].ending = newlines("lf")]
           ELSE [doc EXCEPT !.lines = Append(doc.lines, Line(1, <<>>, TRUE, newlines("lf")))]
      ELSE IF ~Truthy(configSetting) THEN StripFinalNewline(doc)
      ELSE doc

InsertFinalNewlineRule_fix(settings, doc) ==
  LET configSetting == InsertFinalNewlineRule_resolve(settings)
      endOfLineSetting == IF Truthy(Get(settings, "end_of_line"))
                          THEN Get(settings, "end_of_line").s ELSE "lf"
  IN  IF Truthy(configSetting) /\ ~InsertFinalNewlineRule_infer(doc)
      THEN IF doc.lines # <<>>
           THEN [doc EXCEPT !.lines[Len(doc.lines)].ending = newlines(endOfLineSetting)]
           ELSE [doc EXCEPT !.lines =
                   Append(doc.lines, Line(1, <<>>, TRUE, newlines(endOfLineSetting)))]
      ELSE IF ~Truthy(configSetting) THEN StripFinalNewline(doc)
      ELSE doc

(***************************************************************************)
(* lib/rules/max_line_length.ts                                            *)
(***************************************************************************)
MaxLineLengthRule_resolve(settings) ==
  IF Get(settings, "max_line_length").t = "number"
  THEN Get(settings, "max_line_length")
  ELSE Undef

\* line.text.length throws where the line or its text is undefined
MaxLineLengthRule_inferThrows(line) == line = NoArgument \/ ~line.hasText

MaxLineLengthRule_infer(line) == Len(line.text)

\* check(context, settings, line)
MaxLineLengthRule_check(context, settings, line) ==
  IF MaxLineLengthRule_inferThrows(line) THEN Threw
  ELSE IF Get(settings, "max_line_length").t = "number"
          /\ MaxLineLengthRule_infer(line) > Get(settings, "max_line_length").n
       THEN IF ~context.report THEN Threw
            ELSE Outcome(FALSE, FALSE, <<>>,
                         <<Report("line length exceeds", line.number, 0)>>)
       ELSE Outcome(FALSE, FALSE, <<>>, <<>>)

MaxLineLengthRule_fix(settings, line) == line

(***************************************************************************)
(* lib/rules/charset.ts                                                    *)
(***************************************************************************)
\* Object.keys(boms)
boms == {"utf-8-bom", "utf-16be", "utf-32le", "utf-16le", "utf-32be"}

CharsetRule_resolve(settings) == Get(settings, "charset")

CharsetRule_infer(doc) == doc.charset

RECURSIVE Latin1Reports(_, _)
Latin1Reports(line, i) ==
  IF i > Len(line.text) THEN <<>>
  ELSE (IF line.text[i] >= 128
        THEN <<Report("character out of latin1 range", line.number, i)>>
        ELSE <<>>) \o Latin1Reports(line, i + 1)

checkLatin1TextRange(context, settings, line) ==
  IF line = NoArgument \/ ~line.hasText THEN Threw   \* text.length of undefined
  ELSE IF Latin1Reports(line, 1) # <<>> /\ ~context.report THEN Threw
  ELSE Outcome(FALSE, FALSE, <<>>, Latin1Reports(line, 1))

\* check, had it gone on to the latin1 scan after it compared a detected charset
CharsetRule_checkThenScan(context, settings, doc) ==
  IF doc = NoArgument THEN Threw
  ELSE
    LET inferredSetting == CharsetRule_infer(doc)
        configSetting == CharsetRule_resolve(settings)
        compared == IF Truthy(inferredSetting) /\ inferredSetting # configSetting
                    THEN <<Report("invalid charset", 0, 0)>> ELSE <<>>
        scanned == IF configSetting = Str("latin1") /\ doc.lines # <<>>
                   THEN Latin1Reports(doc.lines[1], 1) ELSE <<>>
    IN  Outcome(FALSE, FALSE, <<>>, compared \o scanned)

\* check(context, settings, doc)
CharsetRule_check(context, settings, doc) ==
  IF doc = NoArgument THEN Threw   \* infer(doc) reads doc.charset of undefined
  ELSE
    LET inferredSetting == CharsetRule_infer(doc)
        configSetting == CharsetRule_resolve(settings)
    IN  IF Truthy(inferredSetting)
        THEN IF inferredSetting # Get(settings, "charset")
             THEN IF ~context.report THEN Threw
                  ELSE Outcome(FALSE, FALSE, <<>>, <<Report("invalid charset", 0, 0)>>)
             ELSE Outcome(FALSE, FALSE, <<>>, <<>>)
        ELSE IF configSetting = Str("latin1")
        THEN checkLatin1TextRange(context, settings,
                                  IF doc.lines = <<>> THEN NoArgument ELSE doc.lines[1])
        ELSE IF configSetting.t = "string" /\ configSetting.s \in boms
        THEN IF ~context.report THEN Threw
             ELSE Outcome(FALSE, FALSE, <<>>, <<Report("expected charset", 0, 0)>>)
        ELSE Outcome(FALSE, FALSE, <<>>, <<>>)

CharsetRule_fix(settings, doc) ==
  [doc EXCEPT !.charset = CharsetRule_resolve(settings)]

(***************************************************************************)
(* lib/rules/end_of_line.ts (from the specification, section 4.6): a line  *)
(* rule that compares and rewrites Line.ending.                            *)
(***************************************************************************)
NewlineNames == {"lf", "crlf", "cr"}

EndOfLineRule_resolve(settings) ==
  IF Get(settings, "end_of_line").t = "string"
     /\ Get(settings, "end_of_line").s \in NewlineNames
  THEN Get(settings, "end_of_line")
  ELSE Undef

EndOfLineRule_infer(line) ==
  IF line.ending = <<>> THEN Undef
  ELSE Str(CHOOSE name \in NewlineNames : newlines(name) = line.ending)

EndOfLineRule_check(settings, line) ==
  LET configSetting == EndOfLineRule_resolve(settings)
      inferredSetting == EndOfLineRule_infer(line)
  IN  IF configSetting # Undef /\ inferredSetting # Undef
         /\ inferredSetting # configSetting
      THEN Outcome(FALSE, TRUE,
                   <<EditorConfigError("end_of_line", "invalid newline",
                                       line.number, Len(line.text))>>, <<>>)
      ELSE Outcome(FALSE, FALSE, <<>>, <<>>)

EndOfLineRule_fix(settings, line) ==
  LET configSetting == EndOfLineRule_resolve(settings)
  IN  IF configSetting # Undef /\ line.ending # <<>>
      THEN [line EXCEPT !.ending = newlines(configSetting.s)]
      ELSE line

(***************************************************************************)
(* The engine: the bodies of the check and fix transforms of lib/eclint.ts *)
(***************************************************************************)
\* (<DocumentRule>rule).fix(settings, document)
DocumentRule_fix(name, settings, document) ==
  CASE name = "charset" -> CharsetRule_fix(settings, document)
    [] name = "insert_final_newline" -> InsertFinalNewlineRule_fix(settings, document)

\* (<LineRule>rule).fix(settings, line)
LineRule_fix(name, settings, line) ==
  CASE name = "max_line_length" -> MaxLineLengthRule_fix(settings, line)
    [] name = "end_of_line" -> EndOfLineRule_fix(settings, line)

\* one turn of the loop of fix over Object.keys(settings), for a key with a rule
ApplyFix(setting, settings, document) ==
  IF RuleType(setting) = "DocumentRule"
  THEN DocumentRule_fix(setting, settings, document)
  ELSE [document EXCEPT !.lines =
          [n \in 1..Len(document.lines) |->
             LineRule_fix(setting, settings, document.lines[n])]]

\* the loop of fix from the i-th key on: the rules applied, in order, each with
\* the document before and after it
RECURSIVE FixRules(_, _, _)
FixRules(settings, document, i) ==
  IF i > Len(settings) THEN <<>>
  ELSE IF RuleIsUndefined(settings[i].key) THEN FixRules(settings, document, i + 1)
  ELSE LET after == ApplyFix(settings[i].key, settings, document)
       IN  <<[rule |-> settings[i].key, before |-> document, after |-> after]>>
             \o FixRules(settings, after, i + 1)

\* (<DocumentRule>rule).check(settings, document): the rules of lib/rules
\* declare check(context, settings, doc), so the two arguments bind to
\* context and settings and doc is undefined
DocumentRule_check(name, settings, document) ==
  CASE name = "charset" -> CharsetRule_check(AsContext(settings), document, NoArgument)
    [] name = "insert_final_newline" ->
         InsertFinalNewlineRule_check(AsContext(settings), document, NoArgument)

\* check(settings, line) of a line rule
LineRule_check(name, settings, line) ==
  CASE name = "max_line_length" ->
         MaxLineLengthRule_check(AsContext(settings), line, NoArgument)
    [] name = "end_of_line" -> EndOfLineRule_check(settings, line)

\* document.lines.forEach(line => addError(check(settings, line)))
RECURSIVE CheckLines(_, _, _, _)
CheckLines(name, settings, lines, n) ==
  IF n > Len(lines) THEN [threw |-> FALSE, errors |-> <<>>]
  ELSE LET o == LineRule_check(name, settings, lines[n])
           rest == CheckLines(name, settings, lines, n + 1)
       IN  IF o.threw THEN [threw |-> TRUE, errors |-> <<>>]
           ELSE [threw |-> rest.threw,
                 errors |-> (IF o.defined THEN o.errors ELSE <<>>) \o rest.errors]

\* one turn of the loop of check, for a key with a rule
ApplyCheck(setting, settings, document) ==
  IF RuleType(setting) = "DocumentRule"
  THEN LET o == DocumentRule_check(setting, settings, document)
       IN  IF o.threw \/ ~o.defined   \* (undefined).forEach is a TypeError
           THEN [threw |-> TRUE, errors |-> <<>>]
           ELSE [threw |-> FALSE, errors |-> o.errors]
  ELSE CheckLines(setting, settings, document.lines, 1)

\* the loop of check from the i-th key on: whether it threw, the errors pushed
\* and the rules invoked, in order
RECURSIVE CheckRules(_, _, _)
CheckRules(settings, document, i) ==
  IF i > Len(settings) THEN [threw |-> FALSE, errors |-> <<>>, invoked |-> <<>>]
  ELSE IF RuleIsUndefined(settings[i].key) THEN CheckRules(settings, document, i + 1)
  ELSE LET r == ApplyCheck(settings[i].key, settings, document)
           rest == CheckRules(settings, document, i + 1)
       IN  IF r.threw
           THEN [threw |-> TRUE, errors |-> r.errors, invoked |-> <<settings[i].key>>]
           ELSE [threw |-> rest.threw, errors |-> r.errors \o rest.errors,
                 invoked |-> <<settings[i].key>> \o rest.invoked]

(***************************************************************************)
(* The infer transform of lib/eclint.ts.  A tally is the sequence of its   *)
(* [value, score] properties in insertion order.  The tallies are a record *)
(* of the rules of the model; set is FALSE while settings is still {}.     *)
(***************************************************************************)
\* the rules of the table the model has, in the order of Object.keys(rules)
inferredRules ==
  SelectSeq(rules, LAMBDA name :
    name \in {"charset", "end_of_line", "insert_final_newline", "max_line_length"})

NoTallies ==
  [set |-> FALSE, charset |-> <<>>, end_of_line |-> <<>>,
   insert_final_newline |-> <<>>, max_line_length |-> 0]

Score(setting, value) ==
  IF \E i \in 1..Len(setting) : setting[i].value = value
  THEN setting[CHOOSE i \in 1..Len(setting) : setting[i].value = value].score
  ELSE 0

\* incrementSetting(setting, value)
incrementSetting(setting, value) ==
  IF \E i \in 1..Len(setting) : setting[i].value = ToKey(value)
  THEN [i \in 1..Len(setting) |->
          IF setting[i].value = ToKey(value)
          THEN [setting[i] EXCEPT !.score = @ + 1] ELSE setting[i]]
  ELSE Append(setting, [value |-> ToKey(value), score |-> 1])

\* document.lines.forEach(line => incrementSetting(setting, infer(line)))
RECURSIVE TallyLines(_, _, _)
TallyLines(setting, lines, n) ==
  IF n > Len(lines) THEN setting
  ELSE TallyLines(incrementSetting(setting, EndOfLineRule_infer(lines[n])), lines, n + 1)

\* the forEach of max_line_length from line n on: the running maximum, and
\* whether infer threw, which ends the forEach
RECURSIVE LongestLine(_, _, _)
LongestLine(longest, lines, n) ==
  IF n > Len(lines) THEN [max_line_length |-> longest, threw |-> FALSE]
  ELSE IF MaxLineLengthRule_inferThrows(lines[n])
  THEN [max_line_length |-> longest, threw |-> TRUE]
  ELSE LET inferredSetting == MaxLineLengthRule_infer(lines[n])
       IN  LongestLine(IF inferredSetting > longest THEN inferredSetting ELSE longest,
                       lines, n + 1)

\* one turn of the loop of bufferContents over Object.keys(rules): the key's
\* tally is set anew, then the rule's infer is tallied
TallyRule(settings, key, document) ==
  CASE key = "charset" ->
         [settings EXCEPT !.set = TRUE,
            !.charset = incrementSetting(<<>>, CharsetRule_infer(document))]
    [] key = "insert_final_newline" ->
         [settings EXCEPT !.set = TRUE,
            !.insert_final_newline =
               incrementSetting(<<>>, Bool(InsertFinalNewlineRule_infer(document)))]
    [] key = "end_of_line" ->
         [settings EXCEPT !.set = TRUE,
            !.end_of_line = TallyLines(<<>>, document.lines, 1)]
    [] key = "max_line_length" ->
         [settings EXCEPT !.set = TRUE,
            !.max_line_length = LongestLine(0, document.lines, 1).max_line_length]

\* whether the turn of the loop for the key ends in its catch block
RuleThrows(key, document) ==
  key = "max_line_length" /\ LongestLine(0, document.lines, 1).threw

RECURSIVE TallyRules(_, _, _)
TallyRules(settings, document, i) ==
  IF i > Len(inferredRules) THEN settings
  ELSE TallyRules(TallyRule(settings, inferredRules[i], document), document, i + 1)

\* the calls of done of bufferContents for a buffer file: one for each rule
\* whose infer threw, and the one that ends the function
DoneCalls(document) ==
  Cardinality({i \in 1..Len(inferredRules) : RuleThrows(inferredRules[i], document)}) + 1

\* parseValue(value): JSON.parse of a key, the key itself where that throws
parseValue(value) ==
  CASE value = "true" -> Bool(TRUE)
    [] value = "false" -> Bool(FALSE)
    [] OTHER -> Str(value)

\* the forEach, had it compared score > maxScore
RECURSIVE BestValueStrictly(_, _, _, _)
BestValueStrictly(setting, i, maxScore, result) ==
  IF i > Len(setting) THEN result
  ELSE IF setting[i].score > maxScore
  THEN BestValueStrictly(setting, i + 1, setting[i].score, parseValue(setting[i].value))
  ELSE BestValueStrictly(setting, i + 1, maxScore, result)

\* the forEach of resolveScores over the values of one setting, from value i on
RECURSIVE BestValue(_, _, _, _)
BestValue(setting, i, maxScore, result) ==
  IF i > Len(setting) THEN result
  ELSE IF setting[i].score >= maxScore
  THEN BestValue(setting, i + 1, setting[i].score, parseValue(setting[i].value))
  ELSE BestValue(setting, i + 1, maxScore, result)

\* Math.ceil(n / 10) * 10
CeilToTen(n) == ((n + 9) \div 10) * 10

\* resolveScores()
resolveScores(settings) ==
  [charset |-> BestValue(settings.charset, 1, 0, Undef),
   end_of_line |-> BestValue(settings.end_of_line, 1, 0, Undef),
   insert_final_newline |-> BestValue(settings.insert_final_newline, 1, 0, Undef),
   max_line_length |-> CeilToTen(settings.max_line_length)]

(***************************************************************************)
(* Inputs.                                                                 *)
(***************************************************************************)
BoundedSeq(S, n) == UNION {[1..k -> S] : k \in 0..n}

\* the bytes of a file body: NUL, the terminators and a letter
BodyBytes == {0, LF, CR, LetterF}

\* no byte-order mark, or the mark of utf_8_bom or utf_16le; a body of two NUL
\* bytes after the latter makes the mark of utf_32le
BomPrefixes ==
  {<<>>} \cup {charsets[i].bom : i \in {j \in 1..Len(charsets) :
                                          charsets[j].charset \in {"utf_8_bom", "utf_16le"}}}

Buffers == {bom \o body : bom \in BomPrefixes, body \in BoundedSeq(BodyBytes, MaxLen)}

\* the files fed to infer: no byte-order mark or that of utf_16le, then lines of
\* the letter with any terminators
InferBuffers ==
  {bom \o body : bom \in {<<>>, <<255, 254>>},
                 body \in BoundedSeq({LF, CR, LetterF}, MaxInferLen)}

SettingPairs ==
  { Pair("charset", Str("utf_16le")),
    Pair("end_of_line", Str("crlf")),
    Pair("insert_final_newline", Bool(TRUE)), Pair("insert_final_newline", Bool(FALSE)),
    Pair("insert_final_newline", Str("true")),
    Pair("max_line_length", Num(1)),
    Pair("root", Bool(TRUE)) }

DistinctKeys(obj) == \A i, j \in 1..Len(obj) : obj[i].key = obj[j].key => i = j

SettingsObjects == {obj \in BoundedSeq(SettingPairs, MaxKeys) : DistinctKeys(obj)}

\* options.settings of the command: none, the -n flag or the -t flag
CommandSettings ==
  {<<>>, <<Pair("insert_final_newline", Bool(TRUE))>>, <<Pair("tab_width", Num(4))>>}

FileKinds == {"null", "stream", "buffer"}

(***************************************************************************)
(* State.                                                                  *)
(***************************************************************************)
VARIABLES
  kind,             \* the file: null, stream or buffer
  contents,         \* file.contents
  fileSettings,     \* what editorconfig.parse(file.path) resolves to
  commandSettings,  \* options.settings of the transform
  handler,          \* the transform that handled the file last
  status,           \* how it called done: "ok" or "error"
  previous,         \* file.contents before the last fix
  fixed,            \* file.editorconfig.fixed
  trace,            \* the rules the last fix applied, each with before and after
  errors,           \* file.editorconfig.errors of the last check
  invoked,          \* the rules the last check invoked
  score,            \* options.score of the infer transform
  tally,            \* settings, the tallies of the infer transform
  total,            \* history: the tallies over all files of the invocation
  files,            \* history: how many files the infer transform was given
  doneCalls,        \* how often bufferContents called done for the last file
  doneError,        \* whether one of these calls passed an error
  emitted           \* what endStream pushed

engineVars == <<kind, contents, fileSettings, commandSettings, handler, status,
                previous, fixed, trace, errors, invoked>>

inferVars == <<score, tally, total, files, doneCalls, doneError, emitted>>

vars == <<engineVars, inferVars>>

(***************************************************************************)
(* The infer transform as a state machine: files arrive one after another, *)
(* then the stream ends.                                                   *)
(***************************************************************************)
NothingEmitted == [kind |-> "none", settings |-> NoTallies, resolved |-> resolveScores(NoTallies)]

InferIdle ==
  /\ score = FALSE
  /\ tally = NoTallies
  /\ total = NoTallies
  /\ files = 0
  /\ doneCalls = 0
  /\ doneError = FALSE
  /\ emitted = NothingEmitted

EngineIdle ==
  /\ kind = "null"
  /\ contents = <<>>
  /\ fileSettings = <<>>
  /\ commandSettings = <<>>
  /\ handler = "none"
  /\ status = "none"
  /\ previous = <<>>
  /\ fixed = FALSE
  /\ trace = <<>>
  /\ errors = <<>>
  /\ invoked = <<>>

InferInit ==
  /\ EngineIdle
  /\ score \in BOOLEAN
  /\ tally = NoTallies
  /\ total = NoTallies
  /\ files = 0
  /\ doneCalls = 0
  /\ doneError = FALSE
  /\ emitted = NothingEmitted

\* the last of the lines has a terminator
HasFinalNewline(lines) == lines # <<>> /\ Last(lines).ending # <<>>

Receiving == emitted.kind = "none" /\ files < MaxFiles

\* history: the tallies had no turn of the loop set a tally anew
Accumulate(settings, document) ==
  [set |-> TRUE,
   charset |-> incrementSetting(settings.charset, document.charset),
   end_of_line |-> TallyLines(settings.end_of_line, document.lines, 1),
   insert_final_newline |->
     incrementSetting(settings.insert_final_newline,
                      Bool(HasFinalNewline(document.lines))),
   max_line_length |->
     LET lengths == {Len(document.lines[n].text) : n \in 1..Len(document.lines)}
                      \cup {settings.max_line_length}
     IN  CHOOSE m \in lengths : \A l \in lengths : l <= m]

\* bufferContents on a null file: done()
InferNull ==
  /\ Receiving
  /\ files' = files + 1
  /\ doneCalls' = 1
  /\ doneError' = FALSE
  /\ UNCHANGED <<score, tally, total, emitted>>
  /\ UNCHANGED engineVars

\* bufferContents on a stream file: done(new PluginError(...))
InferStream ==
  /\ Receiving
  /\ files' = files + 1
  /\ doneCalls' = 1
  /\ doneError' = TRUE
  /\ UNCHANGED <<score, tally, total, emitted>>
  /\ UNCHANGED engineVars

\* bufferContents on a buffer file
InferBuffer ==
  /\ Receiving
  /\ \E buffer \in InferBuffers :
       LET document == create(buffer)
       IN  /\ tally' = TallyRules(tally, document, 1)
           /\ total' = Accumulate(total, document)
           /\ doneCalls' = DoneCalls(document)
           /\ doneError' = (DoneCalls(document) > 1)
  /\ files' = files + 1
  /\ UNCHANGED <<score, emitted>>
  /\ UNCHANGED engineVars

\* endStream after at least one buffer file: the tallies with options.score,
\* the resolved settings without
EndStream ==
  /\ emitted.kind = "none"
  /\ tally.set
  /\ emitted' = [kind |-> IF score THEN "score" ELSE "resolved",
                 settings |-> tally,
                 resolved |-> IF score THEN resolveScores(NoTallies)
                              ELSE resolveScores(tally)]
  /\ UNCHANGED <<score, tally, total, files, doneCalls, doneError>>
  /\ UNCHANGED engineVars

InferNext == InferNull \/ InferStream \/ InferBuffer \/ EndStream

InferSpec == InferInit /\ [][InferNext]_vars

Init ==
  /\ kind \in FileKinds
  /\ contents \in (IF kind = "buffer" THEN Buffers ELSE {<<>>})
  /\ fileSettings \in SettingsObjects
  /\ commandSettings \in {obj \in CommandSettings : Len(fileSettings) + Len(obj) <= MaxKeys}
  /\ handler = "none"
  /\ status = "none"
  /\ previous = <<>>
  /\ fixed = FALSE
  /\ trace = <<>>
  /\ errors = <<>>
  /\ invoked = <<>>
  /\ InferIdle

\* file.isNull(): done(null, file)
PassNull(name) ==
  /\ kind = "null"
  /\ handler' = name
  /\ status' = "ok"
  /\ UNCHANGED <<kind, contents, fileSettings, commandSettings, previous, fixed,
                 trace, errors, invoked>>
  /\ UNCHANGED inferVars

\* file.isStream(): done(createPluginError('Streams are not supported'))
RejectStream(name) ==
  /\ kind = "stream"
  /\ handler' = name
  /\ status' = "error"
  /\ UNCHANGED <<kind, contents, fileSettings, commandSettings, previous, fixed,
                 trace, errors, invoked>>
  /\ UNCHANGED inferVars

\* the transform of eclint.fix on a buffer file
FixBuffer ==
  /\ kind = "buffer"
  /\ handler \in {"none", "fix"}
  /\ LET settings == getSettings(fileSettings, commandSettings)
         document == create(contents)
         applied == FixRules(settings, document, 1)
         result == IF applied = <<>> THEN document ELSE Last(applied).after
     IN  /\ contents' = toBuffer(result)
         /\ trace' = applied
  /\ previous' = contents
  /\ fixed' = TRUE
  /\ handler' = "fix"
  /\ status' = "ok"
  /\ UNCHANGED <<kind, fileSettings, commandSettings, errors, invoked>>
  /\ UNCHANGED inferVars

Fix == PassNull("fix") \/ RejectStream("fix") \/ FixBuffer

\* the transform of eclint.check on a buffer file
CheckBuffer ==
  /\ kind = "buffer"
  /\ handler \in {"none", "check"}
  /\ LET settings == getSettings(fileSettings, commandSettings)
         document == create(contents)
         r == CheckRules(settings, document, 1)
     IN  /\ status' = IF r.threw THEN "error" ELSE "ok"
         /\ errors' = IF r.threw THEN errors ELSE r.errors
         /\ invoked' = r.invoked
  /\ handler' = "check"
  /\ UNCHANGED <<kind, contents, fileSettings, commandSettings, previous, fixed, trace>>
  /\ UNCHANGED inferVars

Check == PassNull("check") \/ RejectStream("check") \/ CheckBuffer

Next == Fix \/ Check

Spec == Init /\ [][Next]_vars

(***************************************************************************)
(* The charset rule's check on its own: rule.check(context, settings, doc) *)
(* as lib/rules/charset.ts declares it and its tests call it, with a       *)
(* context whose report collects the messages; and the check transform on  *)
(* the same files.  The bodies have the characters 0x7F and 0x80.          *)
(***************************************************************************)
CharsetBodyBytes == {127, 128, LF, LetterF}

CharsetBuffers ==
  {bom \o body : bom \in {<<>>, <<239, 187, 191>>, <<255, 254>>},
                 body \in BoundedSeq(CharsetBodyBytes, MaxCharsetLen)}

CharsetSettings ==
  {<<Pair("charset", Str(name))>> : name \in {"latin1", "utf_8_bom", "utf_16le"}}

CharsetInit ==
  /\ kind = "buffer"
  /\ contents \in CharsetBuffers
  /\ fileSettings \in CharsetSettings
  /\ commandSettings = <<>>
  /\ handler = "none"
  /\ status = "none"
  /\ previous = <<>>
  /\ fixed = FALSE
  /\ trace = <<>>
  /\ errors = <<>>
  /\ invoked = <<>>
  /\ InferIdle

\* rule.check(context, settings, doc): errors holds what context.report was given
CharsetCheck ==
  /\ kind = "buffer"
  /\ handler \in {"none", "rule"}
  /\ LET o == CharsetRule_check(Context(TRUE), fileSettings, create(contents))
     IN  /\ status' = IF o.threw THEN "error" ELSE "ok"
         /\ errors' = o.reports
  /\ invoked' = <<"charset">>
  /\ handler' = "rule"
  /\ UNCHANGED <<kind, contents, fileSettings, commandSettings, previous, fixed, trace>>
  /\ UNCHANGED inferVars

CharsetNext == CharsetCheck \/ CheckBuffer

CharsetSpec == CharsetInit /\ [][CharsetNext]_vars

(***************************************************************************)
(* Properties of fix.                                                      *)
(***************************************************************************)
\* the settings the engine works with for the file
Settings == getSettings(fileSettings, commandSettings)

\* the document doc.create built from the contents the last fix was given
Built == create(previous)

\* a buffer file has just been through fix
Fixed == kind = "buffer" /\ handler = "fix"

\* the rule configured under key k has nothing to change in the document
NothingToChange(k, doc) ==
  CASE k = "charset" -> Get(Settings, "charset") = doc.charset
    [] k = "end_of_line" ->
         \A n \in 1..Len(doc.lines) :
           doc.lines[n].ending \in {<<>>, newlines(Get(Settings, "end_of_line").s)}
    [] k = "insert_final_newline" ->
         Get(Settings, "insert_final_newline") = Bool(HasFinalNewline(doc.lines))
    [] k = "max_line_length" -> TRUE
    [] OTHER -> TRUE

NoRuleMutates ==
  \A i \in 1..Len(Settings) : NothingToChange(Settings[i].key, Built)

\* C1: a buffer that goes through fix under settings that name no rule, or
\* whose rules all find nothing to change, comes out byte for byte as it went in
RoundTrip == (Fixed /\ NoRuleMutates) => contents = previous

\* C1 witness: a file with a byte-order mark and a CRLF final newline went
\* through fix with insert_final_newline = true and came out unchanged
RoundTripWitness ==
  /\ Fixed /\ NoRuleMutates
  /\ Get(Settings, "insert_final_newline") = Bool(TRUE)
  /\ Len(trace) > 0
  /\ Built.charset # Undef
  /\ Last(Built.lines).ending = <<CR, LF>>
  /\ contents = previous

\* C2: fixing a file that fix has already fixed, under the same settings,
\* changes nothing
FixIsIdempotent ==
  [][(kind = "buffer" /\ fixed /\ handler' = "fix") => contents' = contents]_vars

\* the applications of the insert_final_newline fix in the last fix
FinalNewlineFixes == {i \in 1..Len(trace) : trace[i].rule = "insert_final_newline"}

\* every line has empty text and a terminator
OnlyBlankLines(lines) ==
  \A n \in 1..Len(lines) : lines[n].text = <<>> /\ lines[n].ending # <<>>

\* what stripping the final newline may do to the lines b, giving the lines a
Stripped(b, a) ==
  /\ ~HasFinalNewline(a)
  /\ Len(a) <= Len(b)
  /\ \A n \in 1..Len(a) - 1 : a[n] = b[n]
  /\ \A n \in Len(a) + 1..Len(b) : b[n].text = <<>>
  /\ a # <<>> =>
       /\ Last(a).text = b[Len(a)].text
       /\ Last(a).hasText = b[Len(a)].hasText
       /\ Last(a).number = b[Len(a)].number
       /\ Last(a) # b[Len(a)] => (Last(a).text # <<>> /\ Last(a).ending = <<>>)
  /\ ~HasFinalNewline(b) => a = b
  /\ OnlyBlankLines(b) => a = <<>>

\* C3: the insert_final_newline fix toward false ends with a document without
\* final newline; it only removes trailing lines of empty text and clears the
\* ending of the first line from the end that has text; lines of blank lines
\* only are all removed
FinalNewlineFixTowardFalse ==
  \A i \in FinalNewlineFixes :
    Get(Settings, "insert_final_newline") = Bool(FALSE) =>
      /\ Stripped(trace[i].before.lines, trace[i].after.lines)
      /\ trace[i].after.charset = trace[i].before.charset

\* C3 witness: a line with text followed by a blank line: the blank line is
\* removed and the ending of the line with text is cleared
FinalNewlineFixTowardFalseWitness ==
  \E i \in FinalNewlineFixes :
    /\ Get(Settings, "insert_final_newline") = Bool(FALSE)
    /\ Len(trace[i].before.lines) = 2
    /\ trace[i].before.lines[1].text = <<LetterF>>
    /\ trace[i].before.lines[1].ending = <<LF>>
    /\ trace[i].after.lines = <<Line(1, <<LetterF>>, TRUE, <<>>)>>
    /\ contents = <<LetterF>>

\* the literal of the configured end_of_line, lf when none is configured
ConfiguredNewline ==
  IF HasKey(Settings, "end_of_line")
  THEN newlines(Get(Settings, "end_of_line").s)
  ELSE <<LF>>

\* what inserting the final newline does to the lines b, giving the lines a
Inserted(b, a) ==
  IF HasFinalNewline(b) THEN a = b
  ELSE IF b = <<>> THEN a = <<Line(1, <<>>, TRUE, ConfiguredNewline)>>
  ELSE /\ Len(a) = Len(b)
       /\ \A n \in 1..Len(b) - 1 : a[n] = b[n]
       /\ Last(a) = [Last(b) EXCEPT !.ending = ConfiguredNewline]

\* C4: the insert_final_newline fix toward true gives the last line of a
\* document without final newline the literal of the configured end_of_line
\* (lf by default), or inserts line 1 with that ending into a document without
\* lines, and changes nothing else; a document with a final newline is unchanged
FinalNewlineFixTowardTrue ==
  \A i \in FinalNewlineFixes :
    Get(Settings, "insert_final_newline") = Bool(TRUE) =>
      /\ Inserted(trace[i].before.lines, trace[i].after.lines)
      /\ trace[i].after.charset = trace[i].before.charset

\* C4 witness: the one line "f" without terminator gets the configured CRLF
FinalNewlineFixTowardTrueWitness ==
  \E i \in FinalNewlineFixes :
    /\ Get(Settings, "insert_final_newline") = Bool(TRUE)
    /\ Get(Settings, "end_of_line") = Str("crlf")
    /\ trace[i].before.lines = <<Line(1, <<LetterF>>, TRUE, <<>>)>>
    /\ trace[i].after.lines = <<Line(1, <<LetterF>>, TRUE, <<CR, LF>>)>>
    /\ contents = <<LetterF, CR, LF>>

(***************************************************************************)
(* Properties of the engine.                                               *)
(***************************************************************************)
\* the rules the last fix applied, in order
FixedRules == [i \in 1..Len(trace) |-> trace[i].rule]

TableIndex(name) == CHOOSE i \in 1..Len(ruleNames) : ruleNames[i] = name

InTableOrder(names) ==
  \A i, j \in 1..Len(names) : i < j => TableIndex(names[i]) < TableIndex(names[j])

MergedKeys ==
  Keys(fileSettings)
    \o SelectSeq(Keys(commandSettings), LAMBDA k : ~HasKey(fileSettings, k))

\* those of them that have a rule
ConfiguredRules ==
  SelectSeq(MergedKeys, LAMBDA k : \E i \in 1..Len(rules) : rules[i] = k)

Checked == create(contents)

\* the lines that violate the configured end_of_line
WrongNewlines ==
  {n \in 1..Len(Checked.lines) :
     /\ HasKey(Settings, "end_of_line")
     /\ Checked.lines[n].ending \notin {<<>>, newlines(Get(Settings, "end_of_line").s)}}

\* the configured insert_final_newline is violated
WrongFinalNewline ==
  /\ Get(Settings, "insert_final_newline").t = "boolean"
  /\ Get(Settings, "insert_final_newline") # Bool(HasFinalNewline(Checked.lines))

\* the configured charset is violated
WrongCharset ==
  /\ HasKey(Settings, "charset")
  /\ Checked.charset # Get(Settings, "charset")

\* the lines longer than the configured max_line_length
LongLines ==
  {n \in 1..Len(Checked.lines) :
     /\ Get(Settings, "max_line_length").t = "number"
     /\ Len(Checked.lines[n].text) > Get(Settings, "max_line_length").n}

\* C6: one check reports every violation of every configured rule on every
\* line, whatever else is violated
CheckCollectsEverything ==
  (kind = "buffer" /\ handler = "check") =>
    /\ status = "ok"
    /\ \A n \in WrongNewlines :
         \E e \in 1..Len(errors) : errors[e].lineNumber = n /\ errors[e].message = "invalid newline"
    /\ WrongFinalNewline =>
         \E e \in 1..Len(errors) :
           errors[e].message \in {"expected final newline", "unexpected final newline"}
    /\ \A e, f \in 1..Len(errors) :
         (e < f /\ errors[e].message = errors[f].message) =>
           errors[e].lineNumber < errors[f].lineNumber

\* C7: check of a document that violates no configured rule raises no error and
\* yields no violation record
CheckOfCompliantIsEmpty ==
  (/\ kind = "buffer" /\ handler = "check"
   /\ WrongNewlines = {} /\ ~WrongFinalNewline /\ ~WrongCharset /\ LongLines = {})
    => (status = "ok" /\ errors = <<>>)

(***************************************************************************)
(* Properties of infer.                                                    *)
(***************************************************************************)
TallyValues == {"undefined", "true", "false", "lf", "crlf", "cr", "utf_16le"}

SameScores(a, b) == \A value \in TallyValues : Score(a, value) = Score(b, value)

\* C8: after any sequence of files, each tally holds for each value the number
\* of times it was inferred over all files of the invocation
TallyAccumulates ==
  /\ SameScores(tally.charset, total.charset)
  /\ SameScores(tally.end_of_line, total.end_of_line)
  /\ SameScores(tally.insert_final_newline, total.insert_final_newline)

\* the highest score of a tally
TopScore(setting) ==
  CHOOSE m \in {setting[i].score : i \in 1..Len(setting)} :
    \A i \in 1..Len(setting) : setting[i].score <= m

\* the values of a tally that have the highest score, by their place
TopValues(setting) == {i \in 1..Len(setting) : setting[i].score = TopScore(setting)}

Earliest(places) == CHOOSE i \in places : \A j \in places : i <= j
Latest(places) == CHOOSE i \in places : \A j \in places : j <= i

\* the value of the key, as resolveScores reads it back
ReadBack(key) ==
  IF key = "true" THEN Bool(TRUE) ELSE IF key = "false" THEN Bool(FALSE) ELSE Str(key)

Resolved == emitted.kind = "resolved"

IsCeilingOfTen(m, n) == m % 10 = 0 /\ m >= n /\ m - 10 < n

\* C10: the max_line_length tally is the greatest text length over all lines of
\* all files of the invocation, and resolves to the smallest multiple of 10 that
\* is at least that
LongestLineOfAllFiles ==
  /\ tally.set => tally.max_line_length = total.max_line_length
  /\ Resolved => IsCeilingOfTen(emitted.resolved.max_line_length, total.max_line_length)

(***************************************************************************)
(* Properties of the charset: detection and check.                         *)
(***************************************************************************)
\* the table entries whose BOM starts the bytes
BomsThatStart(bytes) == {i \in 1..Len(charsets) : IsPrefix(charsets[i].bom, bytes)}

\* the one of them with the longest BOM
LongestBom(bytes) ==
  CHOOSE i \in BomsThatStart(bytes) :
    \A j \in BomsThatStart(bytes) : Len(charsets[j].bom) <= Len(charsets[i].bom)

\* the bytes start with FF FE 00 00
StartsWithUtf32le(bytes) == IsPrefix(<<255, 254, 0, 0>>, bytes)

\* C11: the document fix builds from contents that start with a known BOM has
\* the charset of the longest table entry that starts the contents, and its
\* lines are those of the bytes after that BOM: FF FE 00 00 is utf_32le, FF FE
\* followed by anything else is utf_16le
BomLongestPrefix ==
  (Fixed /\ trace # <<>> /\ BomsThatStart(previous) # {}) =>
    LET entry == charsets[LongestBom(previous)]
        body == SubSeq(previous, Len(entry.bom) + 1, Len(previous))
    IN  /\ trace[1].before.charset = Str(entry.charset)
        /\ ConcatLines(trace[1].before.lines) = body
        /\ StartsWithUtf32le(previous) => trace[1].before.charset = Str("utf_32le")
        /\ (IsPrefix(<<255, 254>>, previous) /\ ~StartsWithUtf32le(previous))
             => trace[1].before.charset = Str("utf_16le")

\* C11 witness: contents that start with FF FE 00 00 went through fix, and the
\* document the first rule was given has the charset utf_32le
BomLongestPrefixWitness ==
  /\ Fixed /\ trace # <<>>
  /\ StartsWithUtf32le(previous)
  /\ Len(previous) > 4
  /\ trace[1].before.charset = Str("utf_32le")

\* the document the charset rule's check was given
CharsetChecked == handler = "rule"

RECURSIVE Latin1ReportsOfLines(_, _)
Latin1ReportsOfLines(lines, n) ==
  IF n > Len(lines) THEN <<>>
  ELSE Latin1Reports(lines[n], 1) \o Latin1ReportsOfLines(lines, n + 1)

\* C13: the charset rule's check against latin1 of a document without detected
\* charset, whose lines all have text, reports each character of code 0x80 or
\* more of every line, with the line's number and the 1-based column, and
\* nothing else
Latin1RangeOfEveryLine ==
  (/\ CharsetChecked
   /\ Checked.charset = Undef
   /\ \A n \in 1..Len(Checked.lines) : Checked.lines[n].hasText
   /\ Get(fileSettings, "charset") = Str("latin1"))
    => (status = "ok" /\ errors = Latin1ReportsOfLines(Checked.lines, 1))

(***************************************************************************)
(* The completion callback of infer, and the frame of the final newline    *)
(* fix.                                                                    *)
(***************************************************************************)
\* C14: bufferContents calls done once for every file it is given, whatever
\* the file and whether or not a rule's infer throws on it
DoneIsCalledOnce == files > 0 => doneCalls = 1

\* C15: the insert_final_newline fix under a setting that is no boolean leaves
\* the lines of the document as they are
FinalNewlineFixFrame ==
  \A i \in FinalNewlineFixes :
    Get(Settings, "insert_final_newline").t # "boolean" =>
      trace[i].after.lines = trace[i].before.lines

====
